---- MODULE Spec2Model ----
(***************************************************************************)
(* Model of excel.py: the three commands of the command line that change   *)
(* or compare data (names, pair, duplicates), run against a workbook.      *)
(*                                                                         *)
(* A string is a sequence of one-character strings, so that str.strip and  *)
(* str.split are computed and not assumed.  A sheet is the sequence of its *)
(* data rows (the header row is consumed by pd.read_excel); a row is the   *)
(* sequence of its cells; a cell is a string or NaN (an empty cell).       *)
(***************************************************************************)
EXTENDS Integers, Sequences, FiniteSets, TLC

VARIABLES
    workbook,         \* the excel file: sheet name -> sheet
    cmd,              \* the command invoked: "names", "pair" or "duplicates"
    num,              \* --num of the names command
    sheet_list,       \* the split --list of the duplicates command
    pc,               \* position in the command
    err,              \* the exception that ended the command, or "none"
    formatted_names,  \* names command: the value reformat_names returned
    names,            \* pair command: the array get_names returned (N rows of 1 cell)
    pairings,         \* pair command: the array random_pairings returned
    i, j,             \* check_duplicates: the loop indices (1-based)
    out               \* check_duplicates: the comparison results printed so far

vars == <<workbook, cmd, num, sheet_list, pc, err, formatted_names, names,
          pairings, i, j, out>>

----------------------------------------------------------------------------
\* Bounds of the model.
MaxRawRows == 4       \* data rows of the raw sheet
MaxRoster == 4        \* rows of the names sheet read by the pair command
MaxPairs == 2         \* rows of a lab sheet
MaxSheetList == 3     \* entries of the --list of the duplicates command

SeqsUpTo(S, n) == UNION {[1..k -> S] : k \in 0..n}

----------------------------------------------------------------------------
\* Strings and cells.
Space == " "
Comma == ","
EmptyStr == <<>>
NaN == <<"NaN">>      \* the float nan pandas reads from an empty cell; not a str

RECURSIVE LStrip(_)
LStrip(s) == IF s # <<>> /\ Head(s) = Space THEN LStrip(Tail(s)) ELSE s

RECURSIVE RStrip(_)
RStrip(s) ==
    IF s # <<>> /\ s[Len(s)] = Space THEN RStrip(SubSeq(s, 1, Len(s) - 1)) ELSE s

\* str.strip
Strip(s) == RStrip(LStrip(s))

\* name.split(","): the tokens between the commas, in order
RECURSIVE Split(_)
Split(s) ==
    IF \A k \in 1..Len(s) : s[k] # Comma THEN <<s>>
    ELSE LET k == CHOOSE k \in 1..Len(s) :
                      s[k] = Comma /\ \A m \in 1..(k - 1) : s[m] # Comma
         IN  <<SubSeq(s, 1, k - 1)>> \o Split(SubSeq(s, k + 1, Len(s)))

----------------------------------------------------------------------------
\* Sheet names.
RAW_DATA_SHEET == "Raw"
STUDENT_NAMES_SHEET == "Names"
Lab1 == "Lab1"
Lab2 == "Lab2"
PairOutput == "Lab3"        \* --output of the pair command
NoSuchSheet == "Lab9"       \* a name that is no sheet of the workbook

\* The content of the names sheet before the names command runs.
OldNames == <<<<<<"o">>>>>>

----------------------------------------------------------------------------
\* write_to_sheet: the sheet is created, or replaced when it exists.
\* A list becomes one column (pd.Series), an ndarray keeps its rows.
ListToRows(data) == [k \in 1..Len(data) |-> <<data[k]>>]

write_to_sheet(book, rows, sheet_name) ==
    [s \in DOMAIN book \cup {sheet_name} |->
        IF s = sheet_name THEN rows ELSE book[s]]

----------------------------------------------------------------------------
\* reformat_names

\* df[sheet_name].iloc[1:-1, 0]: column 0 without the first and the last row
Iloc(sheet) ==
    LET col == [k \in 1..Len(sheet) |-> sheet[k][1]]
    IN  SubSeq(col, 2, Len(col) - 1)

RawNames(book, sheet_name) == Iloc(book[sheet_name])

\* split_name = list(map(str.strip, name.split(",")))
SplitName(name) ==
    LET tokens == Split(name)
    IN  [k \in 1..Len(tokens) |-> Strip(tokens[k])]

\* The two tokens joined in the order they came: last name first.
NewNameLastFirst(name) ==
    LET split_name == SplitName(name)
    IN  split_name[1] \o <<Space>> \o split_name[2]

\* newname = split_name[1] + ' ' + split_name[0]   (0-based in the source)
NewName(name) ==
    LET split_name == SplitName(name)
    IN  split_name[2] \o <<Space>> \o split_name[1]

\* A validation that only rejects too few names.
CountMismatchLess(n, expected) == n < expected

\* The validation: len(names) != num_students
CountMismatch(n, expected) == n # expected

\* The exception reformat_names raises on these cells, or "none".
\* str.strip of a non-str cell raises TypeError while the list is built;
\* split_name[1] of a name without a comma raises IndexError in the loop;
\* the count is validated after the loop.
ReformatError(raw, expected) ==
    IF \E k \in 1..Len(raw) : raw[k] = NaN THEN "TypeError"
    ELSE IF \E k \in 1..Len(raw) : Len(Split(Strip(raw[k]))) < 2 THEN "IndexError"
    ELSE IF CountMismatch(Len(raw), expected) THEN "ValueError"
    ELSE "none"

Reformatted(raw) == [k \in 1..Len(raw) |-> NewName(Strip(raw[k]))]

\* names command, first statement: formatted_names = reformat_names(...)
names_reformat_names ==
    /\ cmd = "names" /\ pc = "start"
    /\ LET raw == RawNames(workbook, RAW_DATA_SHEET)
           e == ReformatError(raw, num)
       IN  IF e # "none"
           THEN /\ pc' = "failed"
                /\ err' = e
                /\ UNCHANGED formatted_names
           ELSE /\ pc' = "reformatted"
                /\ formatted_names' = Reformatted(raw)
                /\ UNCHANGED err
    /\ UNCHANGED <<workbook, cmd, num, sheet_list, names, pairings,
                   i, j, out>>

\* names command, second statement: write_to_sheet(data=formatted_names, ...)
names_write_to_sheet ==
    /\ cmd = "names" /\ pc = "reformatted"
    /\ workbook' = write_to_sheet(workbook, ListToRows(formatted_names),
                                  STUDENT_NAMES_SHEET)
    /\ pc' = "done"
    /\ UNCHANGED <<cmd, num, sheet_list, err, formatted_names, names, pairings,
                   i, j, out>>

----------------------------------------------------------------------------
\* get_names: df.values of the names sheet, an array of shape (N, 1)
get_names(book, sheet_name) == book[sheet_name]

\* random_pairings

\* len(names) % 2 != 0
IsOdd(n) == n % 2 # 0

\* The elements of an array in row-major order (its flat memory).
Ravel(arr) == [k \in 1..Len(arr) |-> arr[k][1]]

\* np.append(names, ""): with no axis the array is flattened into a new
\* 1-D array with the value at its end.
NpAppend(arr, value) == Append(Ravel(arr), value)

\* A draw with replacement instead of a reordering.
ShufflesWithReplacement(arr) ==
    {[k \in 1..Len(arr) |-> arr[f[k]]] : f \in [1..Len(arr) -> 1..Len(arr)]}

\* np.random.shuffle: any reordering of the array along its first axis.
Shuffles(arr) ==
    {[k \in 1..Len(arr) |-> arr[p[k]]] : p \in Permutations(1..Len(arr))}

\* flat.reshape(-1, 2): the rows (0,1), (2,3), ... of the flat memory
Reshape2(flat) == [k \in 1..(Len(flat) \div 2) |-> <<flat[2 * k - 1], flat[2 * k]>>]

\* pair command, first statement: names = get_names(file, names)
pair_get_names ==
    /\ cmd = "pair" /\ pc = "start"
    /\ names' = get_names(workbook, STUDENT_NAMES_SHEET)
    /\ pc' = "got_names"
    /\ UNCHANGED <<workbook, cmd, num, sheet_list, err, formatted_names,
                   pairings, i, j, out>>

\* pair command, second statement: pairings = random_pairings(names).
\* Odd length: `names` is rebound to the new array np.append built, which is
\* shuffled and reshaped; the caller's array is not touched.
\* Even length: the caller's array itself is shuffled in place and reshaped.
pair_random_pairings ==
    /\ cmd = "pair" /\ pc = "got_names"
    /\ IF IsOdd(Len(names))
       THEN \E shuffled \in Shuffles(NpAppend(names, EmptyStr)) :
               /\ UNCHANGED names
               /\ IF IsOdd(Len(shuffled))
                  THEN /\ pc' = "failed" /\ err' = "ValueError"
                       /\ UNCHANGED pairings
                  ELSE /\ pc' = "paired" /\ UNCHANGED err
                       /\ pairings' = Reshape2(shuffled)
       ELSE \E shuffled \in Shuffles(names) :
               /\ names' = shuffled
               /\ pc' = "paired" /\ UNCHANGED err
               /\ pairings' = Reshape2(Ravel(shuffled))
    /\ UNCHANGED <<workbook, cmd, num, sheet_list, formatted_names, i, j, out>>

\* pair command, third statement: write_to_sheet(data=pairings, ...)
pair_write_to_sheet ==
    /\ cmd = "pair" /\ pc = "paired"
    /\ workbook' = write_to_sheet(workbook, pairings, PairOutput)
    /\ pc' = "done"
    /\ UNCHANGED <<cmd, num, sheet_list, err, formatted_names, names, pairings,
                   i, j, out>>

----------------------------------------------------------------------------
\* check_duplicates

\* data[i] = data[i].fillna(""): every empty cell becomes the empty string
FillNa(sheet) ==
    [r \in 1..Len(sheet) |->
        [c \in 1..Len(sheet[r]) |->
            IF sheet[r][c] = NaN THEN EmptyStr ELSE sheet[r][c]]]

\* data = pd.read_excel(filename, sheet_name=None), then the fillna loop
ReadData(book) == [s \in DOMAIN book |-> FillNa(book[s])]

\* len(sheet_list) < 2
TooFewSheets(list) == Len(list) < 2

\* A check that looks at the first entry only.
UnknownSheetsFirstOnly(data, list) ==
    {k \in 1..Len(list) : k = 1 /\ list[k] \notin DOMAIN data}

\* the entries of sheet_list that are not in list(data.keys())
UnknownSheets(data, list) == {k \in 1..Len(list) : list[k] \notin DOMAIN data}

\* The columns zipped without str.strip.
RefPairsUnstripped(sheet) ==
    [r \in 1..Len(sheet) |-> <<sheet[r][1], sheet[r][2]>>]

ComparePairsUnstripped(sheet) ==
    [r \in 1..Len(sheet) |-> <<sheet[r][1], sheet[r][2]>>]

\* ref_A, ref_B and lab1_pairs: the stripped columns 0 and 1 of the sheet
\* at position i, zipped
RefPairs(sheet) ==
    [r \in 1..Len(sheet) |-> <<Strip(sheet[r][1]), Strip(sheet[r][2])>>]

\* compare_A, compare_B and lab2_pairs: the same of the sheet at position j
ComparePairs(sheet) ==
    [r \in 1..Len(sheet) |-> <<Strip(sheet[r][1]), Strip(sheet[r][2])>>]

\* set(t) of a tuple t of two names
PairSet(t) == {t[1], t[2]}

\* s in lab2_pairs_set: membership in a list, by equality of sets
InList(s, list) == \E k \in 1..Len(list) : list[k] = s

\* common_pairs = [tuple(s) for s in lab1_pairs_set if s in lab2_pairs_set]
\* (tuple(s) lists the set in no defined order: the set stands for it)
CommonPairs(ref, compare) ==
    LET lab1_pairs == RefPairs(ref)
        lab2_pairs == ComparePairs(compare)
        lab1_pairs_set == [k \in 1..Len(lab1_pairs) |-> PairSet(lab1_pairs[k])]
        lab2_pairs_set == [k \in 1..Len(lab2_pairs) |-> PairSet(lab2_pairs[k])]
        Keep(s) == InList(s, lab2_pairs_set)
    IN  SelectSeq(lab1_pairs_set, Keep)

\* What one iteration of the inner loop prints.
Comparison(data, list, a, b) ==
    LET common_pairs == CommonPairs(data[list[a]], data[list[b]])
    IN  [sheets |-> <<list[a], list[b]>>,
         message |-> IF Len(common_pairs) = 0 THEN "No common pairs found"
                     ELSE "Common pairs found",
         common_pairs |-> common_pairs]

\* check_duplicates up to its loops: the workbook is read, then the two checks
duplicates_validate ==
    /\ cmd = "duplicates" /\ pc = "start"
    /\ IF TooFewSheets(sheet_list)
       THEN /\ pc' = "failed" /\ err' = "ValueError"
            /\ UNCHANGED <<i, j>>
       ELSE IF UnknownSheets(ReadData(workbook), sheet_list) # {}
       THEN /\ pc' = "failed" /\ err' = "NameError"
            /\ UNCHANGED <<i, j>>
       ELSE /\ pc' = "comparing" /\ UNCHANGED err
            /\ i' = 1 /\ j' = 2
    /\ UNCHANGED <<workbook, cmd, num, sheet_list, formatted_names, names,
                   pairings, out>>

\* One iteration of the inner loop, and the step to the next (i, j).
\* data[sheet_list[i]] of a name that is no key raises KeyError.
duplicates_compare ==
    /\ cmd = "duplicates" /\ pc = "comparing"
    /\ LET data == ReadData(workbook)
           R == Len(sheet_list)
       IN  IF sheet_list[i] \notin DOMAIN data \/ sheet_list[j] \notin DOMAIN data
           THEN /\ pc' = "failed" /\ err' = "KeyError"
                /\ UNCHANGED <<i, j, out>>
           ELSE /\ out' = Append(out, Comparison(data, sheet_list, i, j))
                /\ UNCHANGED err
                /\ IF j < R THEN /\ j' = j + 1 /\ UNCHANGED <<i, pc>>
                   ELSE IF i + 1 < R
                   THEN /\ i' = i + 1 /\ j' = i + 2 /\ UNCHANGED pc
                   ELSE /\ pc' = "done" /\ UNCHANGED <<i, j>>
    /\ UNCHANGED <<workbook, cmd, num, sheet_list, formatted_names, names,
                   pairings>>

----------------------------------------------------------------------------
\* Inputs.
RawCells ==
    { <<"d", Comma, Space, "j">>,                  \* "d, j"
      <<Space, "s", Space, Comma, "b", Space>>,    \* " s ,b "
      <<"t", Space, "s">>,                         \* "t s": no comma
      <<"d", Comma, "j", Comma, "r">>,             \* "d,j,r": two commas
      NaN }

RawSheets == SeqsUpTo({<<c>> : c \in RawCells}, MaxRawRows)

NameCells == {<<"a">>, <<"b">>, <<"c">>}

Rosters == SeqsUpTo({<<c>> : c \in NameCells}, MaxRoster)

\* The rows of a lab sheet: a pair, the same pair in the other column order
\* with a blank before a name, and a student left with an empty cell.
LabRows ==
    { <<<<"a">>, <<"b">>>>,
      <<<<"b">>, <<Space, "a">>>>,
      <<<<"a">>, NaN>> }

LabSheets == SeqsUpTo(LabRows, MaxPairs)

SheetLists == SeqsUpTo({Lab1, Lab2, NoSuchSheet}, MaxSheetList)

Sheets == {RAW_DATA_SHEET, STUDENT_NAMES_SHEET, Lab1, Lab2}

\* The workbooks a command is run against: the sheets it reads vary.
Workbooks(command) ==
    IF command = "names"
    THEN {[s \in Sheets |-> IF s = RAW_DATA_SHEET THEN r
                            ELSE IF s = STUDENT_NAMES_SHEET THEN OldNames
                            ELSE <<>>] : r \in RawSheets}
    ELSE IF command = "pair"
    THEN {[s \in Sheets |-> IF s = STUDENT_NAMES_SHEET THEN r ELSE <<>>]
          : r \in Rosters}
    ELSE {[s \in Sheets |-> IF s = Lab1 THEN a ELSE IF s = Lab2 THEN b ELSE <<>>]
          : a \in LabSheets, b \in LabSheets}

Init ==
    /\ cmd \in {"names", "pair", "duplicates"}
    /\ workbook \in Workbooks(cmd)
    /\ num \in (IF cmd = "names" THEN 0..MaxRawRows ELSE {0})
    /\ sheet_list \in (IF cmd = "duplicates" THEN SheetLists ELSE {<<>>})
    /\ pc = "start"
    /\ err = "none"
    /\ formatted_names = <<>>
    /\ names = <<>>
    /\ pairings = <<>>
    /\ i = 0 /\ j = 0
    /\ out = <<>>

Next ==
    \/ names_reformat_names
    \/ names_write_to_sheet
    \/ pair_get_names
    \/ pair_random_pairings
    \/ pair_write_to_sheet
    \/ duplicates_validate
    \/ duplicates_compare

Spec == Init /\ [][Next]_vars

----------------------------------------------------------------------------
\* Helpers of the properties.
Range(s) == {s[k] : k \in 1..Len(s)}

Count(v, s) == Cardinality({k \in 1..Len(s) : s[k] = v})

\* The slots of a round, pairing after pairing.
Slots(round) ==
    [k \in 1..(2 * Len(round)) |-> round[(k + 1) \div 2][IF k % 2 = 1 THEN 1 ELSE 2]]

\* s without its leading and trailing blanks, stated without recursion.
Trimmed(s) ==
    LET inked == {k \in 1..Len(s) : s[k] # Space}
    IN  IF inked = {} THEN <<>>
        ELSE SubSeq(s, CHOOSE k \in inked : \A m \in inked : k <= m,
                       CHOOSE k \in inked : \A m \in inked : k >= m)

Commas(s) == {k \in 1..Len(s) : s[k] = Comma}

\* The roster the pair command reads, and the raw names the names command reads.
Roster == workbook[STUDENT_NAMES_SHEET]

RawInput ==
    LET sheet == workbook[RAW_DATA_SHEET]
    IN  [k \in 1..(IF Len(sheet) > 2 THEN Len(sheet) - 2 ELSE 0) |-> sheet[k + 1][1]]

\* The name a cell of a lab sheet holds: blanks around it do not count, an
\* empty cell is the placeholder.
NameOf(cell) == IF cell = NaN THEN EmptyStr ELSE Trimmed(cell)

SamePairing(p, q) ==
    \/ NameOf(p[1]) = NameOf(q[1]) /\ NameOf(p[2]) = NameOf(q[2])
    \/ NameOf(p[1]) = NameOf(q[2]) /\ NameOf(p[2]) = NameOf(q[1])

\* The pairings of round A that are pairings of round B, as sets of names.
Repeated(A, B) ==
    LET InB(p) == \E r \in 1..Len(B) : SamePairing(p, B[r])
        kept == SelectSeq(A, InB)
    IN  [k \in 1..Len(kept) |-> {NameOf(kept[k][1]), NameOf(kept[k][2])}]

\* The position pairs (a, b), a < b, of a list of R rounds, and the place of
\* one in the nested order (1,2), (1,3), ..., (2,3), ...
PositionPairs(R) == {p \in (1..R) \X (1..R) : p[1] < p[2]}

Place(p, R) ==
    1 + Cardinality({q \in PositionPairs(R) :
                        q[1] < p[1] \/ (q[1] = p[1] /\ q[2] < p[2])})

----------------------------------------------------------------------------
\* C1: for every roster of N > 0 names, random_pairings returns ceil(N/2)
\* pairings of two slots each, and every value fills as many slots as it has
\* entries in the roster, the empty string filling one more when N is odd.
C1_RoundCoversRoster ==
    (cmd = "pair" /\ pc \notin {"start", "got_names"} /\ Len(Roster) > 0) =>
        /\ pc \in {"paired", "done"}
        /\ Len(pairings) = (Len(Roster) + 1) \div 2
        /\ \A k \in 1..Len(pairings) : Len(pairings[k]) = 2
        /\ \A v \in Range(Slots(pairings)) \cup Range(Ravel(Roster)) \cup {EmptyStr} :
              Count(v, Slots(pairings)) =
                  Count(v, Ravel(Roster))
                  + (IF Len(Roster) % 2 = 1 /\ v = EmptyStr THEN 1 ELSE 0)

C1_Witness ==
    /\ cmd = "pair" /\ pc = "paired"
    /\ Len(Roster) = 3
    /\ pairings = << <<EmptyStr, Roster[3][1]>>, <<Roster[1][1], Roster[2][1]>> >>
    /\ Cardinality(Range(Roster)) = 3

\* C2: check_duplicates on R >= 2 known rounds prints one result per position
\* pair (a, b), a < b, in the nested order; the result of (a, b) names the two
\* rounds and lists exactly the pairings of round a that are pairings of round
\* b whatever the column order, and says so when there is none.
C2_OneResultPerPositionPair ==
    (cmd = "duplicates" /\ pc = "done") =>
        LET R == Len(sheet_list)
        IN  /\ Len(out) = (R * (R - 1)) \div 2
            /\ \A p \in PositionPairs(R) :
                  LET result == out[Place(p, R)]
                      a == sheet_list[p[1]]
                      b == sheet_list[p[2]]
                  IN  /\ result.sheets = <<a, b>>
                      /\ result.common_pairs = Repeated(workbook[a], workbook[b])
                      /\ (result.message = "No common pairs found")
                             <=> (Repeated(workbook[a], workbook[b]) = <<>>)

C2_Witness ==
    /\ cmd = "duplicates" /\ pc = "done"
    /\ sheet_list = <<Lab1, Lab2, Lab2>>
    /\ workbook[Lab1] = << <<<<"a">>, NaN>>, <<<<"a">>, <<"b">>>> >>
    /\ workbook[Lab2] = << <<<<"b">>, <<Space, "a">>>> >>
    /\ Len(out) = 3
    /\ out[1].common_pairs = << {<<"a">>, <<"b">>} >>
    /\ out[3].sheets = <<Lab2, Lab2>>

\* C3: no common pair that check_duplicates reports for two rounds holds the
\* placeholder.
C3_NoPlaceholderInCommonPairs ==
    \A k \in 1..Len(out) :
        (out[k].sheets[1] # out[k].sheets[2]) =>
            \A q \in 1..Len(out[k].common_pairs) :
                EmptyStr \notin out[k].common_pairs[q]

\* C4: random_pairings on an empty roster ends in an error.
C4_EmptyRosterFails ==
    (cmd = "pair" /\ pc \notin {"start", "got_names"} /\ Len(Roster) = 0) =>
        (pc = "failed" /\ err # "none")

\* C5: with fewer than two round identifiers, or with one that is no sheet of
\* the workbook, check_duplicates ends in an error and has printed no result.
C5_RejectsBeforeComparing ==
    (/\ cmd = "duplicates" /\ pc # "start"
     /\ \/ Len(sheet_list) < 2
        \/ \E k \in 1..Len(sheet_list) : sheet_list[k] \notin DOMAIN workbook) =>
        /\ pc = "failed"
        /\ err \in {"ValueError", "NameError"}
        /\ out = <<>>

C5_Witness ==
    /\ cmd = "duplicates" /\ pc = "failed"
    /\ sheet_list = <<Lab1, Lab2, NoSuchSheet>>
    /\ err = "NameError"

\* C6: when every raw name is a string with exactly one comma and the expected
\* count is their number, reformat_names returns as many names, the k-th being
\* the trimmed text after the comma, one blank, the trimmed text before it.
C6_FirstLastInOrder ==
    (/\ cmd = "names" /\ pc # "start"
     /\ Len(RawInput) = num
     /\ \A k \in 1..Len(RawInput) :
           RawInput[k] # NaN /\ Cardinality(Commas(RawInput[k])) = 1) =>
        /\ pc \in {"reformatted", "done"}
        /\ Len(formatted_names) = Len(RawInput)
        /\ \A k \in 1..Len(RawInput) :
              LET raw == RawInput[k]
                  c == CHOOSE c \in Commas(raw) : TRUE
              IN  formatted_names[k] =
                      Trimmed(SubSeq(raw, c + 1, Len(raw))) \o <<Space>>
                          \o Trimmed(SubSeq(raw, 1, c - 1))

C6_Witness ==
    /\ cmd = "names" /\ pc = "reformatted"
    /\ num = 2
    /\ formatted_names = << <<"b", Space, "s">>, <<"j", Space, "d">> >>

\* C7: reformat_names ends in an error whenever a raw name splits on commas
\* into fewer or more than two tokens; it returns no name for such an entry.
C7_MalformedNameFails ==
    (/\ cmd = "names" /\ pc # "start"
     /\ \E k \in 1..Len(RawInput) :
           RawInput[k] # NaN /\ Cardinality(Commas(RawInput[k])) # 1) =>
        (pc = "failed" /\ err # "none")

\* C8: when the names normalise and their number is not the expected count,
\* reformat_names raises and the output sheet keeps its content.
C8_CountMismatchWritesNothing ==
    (/\ cmd = "names" /\ pc # "start"
     /\ \A k \in 1..Len(RawInput) :
           RawInput[k] # NaN /\ Commas(RawInput[k]) # {}
     /\ Len(RawInput) # num) =>
        /\ pc = "failed"
        /\ err = "ValueError"
        /\ workbook[STUDENT_NAMES_SHEET] = OldNames

C8_Witness ==
    /\ cmd = "names" /\ pc = "failed" /\ err = "ValueError"
    /\ Len(RawInput) = 2 /\ num = 1

\* C9: when check_duplicates has compared round A against round B and round B
\* against round A, the two results hold the same set of common pairs.
C9_Symmetric ==
    \A k, m \in 1..Len(out) :
        (out[k].sheets = <<out[m].sheets[2], out[m].sheets[1]>>) =>
            Range(out[k].common_pairs) = Range(out[m].common_pairs)

C9_Witness ==
    /\ cmd = "duplicates" /\ pc = "done"
    /\ sheet_list = <<Lab1, Lab2, Lab1>>
    /\ out[1].sheets = <<Lab1, Lab2>> /\ out[3].sheets = <<Lab2, Lab1>>
    /\ Len(out[1].common_pairs) = 2 /\ Len(out[3].common_pairs) = 1

\* C10: after random_pairings, for even and for odd roster sizes, the caller's
\* array holds the names it held before the call, in the same order.
C10_InputUnchanged ==
    (cmd = "pair" /\ pc \in {"paired", "done"}) => names = Roster
====
